---- MODULE Spec2Model ----
\* A model of src/Table.py: the Table class that maps nested record dicts to
\* SQLite rows.  The store is modelled as the relations the statements of the
\* class create, read and write; every public method is one action.
EXTENDS Integers, Sequences, FiniteSets, TLC

\* ------------------------------------------------------------------ bounds
\* Row ids the callers use are 0..MaxId.
MaxId == 2
\* Longest text value a caller passes for a TEXT field.
MaxText == 1
\* Longest list of child records in one group of a record.
MaxKids == 1
\* Number of method calls in one behaviour.
MaxOps == 3
\* Depth of the record trees of the application with tables M, N and C.
MaxDepth == 3
\* Longest group of C records in a tree, and the ids those records take.
MaxLeaves == 2
\* Number of is_valid_record and save_record calls on trees in one behaviour.
MaxTreeOps == 2
\* Longest query text _get_keywords is given.
MaxQuery == 6
\* Longest search_for text search_records is given in relative mode, and in
\* strict mode.
MaxSearch == 5
MaxStrict == 3
\* Number of calls in one behaviour of the two handles on one table.
MaxRaceOps == 4
\* Longest group of C records in the trees saved over rows that have changed.
MaxRewriteKids == 2

\* ------------------------------------------------------------------ values
\* The double-quote character, as one character of a text value.
DQ == "dq"
\* The characters text values are made of: the letter t and the double quote.
Chars == {"t", DQ}
\* The space character, and the characters search queries are made of.
SP == "sp"
QueryChars == {"t", SP, DQ}

\* A Python value: an int, a str (a sequence of characters) or None.
IntV(n) == [ty |-> "int", i |-> n, s |-> <<>>]
StrV(s) == [ty |-> "str", i |-> 0, s |-> s]
NoneV == [ty |-> "NoneType", i |-> 0, s |-> <<>>]

\* Table.valid_types: the Python type each SQLite column type maps to.
valid_types == [INTEGER |-> "int", REAL |-> "float", TEXT |-> "str", BLOB |-> "bytes"]

\* ------------------------------------------------------------------ schema
\* The tables applications declare.  P (a TEXT field t, child table C) and C (an
\* INTEGER field n, no child table) are one application's; M (a TEXT field t,
\* child tables N and C) and N (an INTEGER field n, child table M) are those
\* of an application whose tables declare each other as children.
TableNames == {"P", "C"}
DeclFields(tn) == IF tn \in {"P", "M"} THEN <<[name |-> "t", type |-> "TEXT"]>>
                  ELSE <<[name |-> "n", type |-> "INTEGER"]>>
DeclSubtables(tn) == IF tn = "P" THEN {"C"}
                     ELSE IF tn = "M" THEN {"N", "C"}
                     ELSE IF tn = "N" THEN {"M"}
                     ELSE {}

\* The handles applications hold, built by Table(...): hP and hC in the first
\* application (hP2 is a second handle on P, opened independently), hM, hN and
\* hC in the second.
Handles == {"hP", "hC"}
HandleTable(h) == IF h \in {"hP", "hP2"} THEN "P"
                  ELSE IF h = "hM" THEN "M"
                  ELSE IF h = "hN" THEN "N"
                  ELSE "C"

Range(f) == {f[x] : x \in DOMAIN f}
FieldNames(fields) == {fields[k].name : k \in DOMAIN fields}

\* A Table object: its table_name, _fields and _subtables.
TableObj(tn, fields, subtables) ==
    [table_name |-> tn, fields |-> fields, subtables |-> subtables]
HandleObj(h) == TableObj(HandleTable(h), DeclFields(HandleTable(h)),
                         DeclSubtables(HandleTable(h)))

\* ------------------------------------------------------------------ store
\* A row: its id, its field columns and its subrecords column (the manifest,
\* child table name -> list of child ids).
Row(id, vals, subrecords) == [id |-> id, vals |-> vals, subrecords |-> subrecords]
RowsOf(store, tn) == store[tn].rows
RowIds(store, tn) == {r.id : r \in RowsOf(store, tn)}
\* SELECT ... WHERE id = x: the rows, and fetchone()'s row.
RowsAt(store, tn, id) == {r \in RowsOf(store, tn) : r.id = id}
RowAt(store, tn, id) == CHOOSE r \in RowsOf(store, tn) : r.id = id

\* _create_self: CREATE TABLE and the id-0 row when PRAGMA table_info is empty.
CreateSelf(store, tn, fields, subtables) ==
    IF tn \in DOMAIN store THEN store
    ELSE store @@ (tn :>
        [cols |-> fields,
         rows |-> {Row(0, [f \in FieldNames(fields) |-> NoneV],
                       [s \in subtables |-> <<>>])}])

\* The store after Table("C", ...) and Table("P", ...) on an empty file.
InitStore ==
    CreateSelf(CreateSelf(<<>>, "C", DeclFields("C"), DeclSubtables("C")),
               "P", DeclFields("P"), DeclSubtables("P"))

\* Table.get_table: a Table object recovered from the store.
get_table(store, tn) ==
    IF tn \notin DOMAIN store
    THEN [exc |-> "TableNotFoundError", obj |-> TableObj(tn, <<>>, {})]
    ELSE [exc |-> "",
          obj |-> TableObj(tn, store[tn].cols,
                     IF RowsAt(store, tn, 0) = {} THEN {}
                     ELSE DOMAIN RowAt(store, tn, 0).subrecords)]

\* ------------------------------------------------------------------ get_next_id
MaxOf(S) == CHOOSE x \in S : \A y \in S : y <= x

\* The result of a call: the exception raised ("" when none) and the value.
Raise(e) == [exc |-> e, val |-> NoneV]
Return(v) == [exc |-> "", val |-> v]

\* get_next_id with the cache _max_id = m: the id returned and the new cache.
\* SELECT MAX(id) yields the row (None,) on an empty relation, so the test
\* "table_max_id is None" never holds and None < int raises TypeError.
\* The mutant of get_next_id that leaves out "self._max_id += 1".
get_next_id_no_advance(store, tn, m) ==
    IF RowIds(store, tn) = {} THEN [exc |-> "TypeError", val |-> 0, max_id |-> m]
    ELSE LET table_max_id == MaxOf(RowIds(store, tn)) IN
         IF table_max_id < m
         THEN [exc |-> "", val |-> m + 1, max_id |-> m]
         ELSE [exc |-> "", val |-> table_max_id + 1, max_id |-> table_max_id]

RECURSIVE get_next_id(_, _, _)
get_next_id(store, tn, m) ==
    IF RowIds(store, tn) = {} THEN [exc |-> "TypeError", val |-> 0, max_id |-> m]
    ELSE LET table_max_id == MaxOf(RowIds(store, tn)) IN
         IF table_max_id < m
         THEN IF RowsAt(store, tn, m) = {}
              THEN [exc |-> "", val |-> m + 1, max_id |-> m + 1]
              ELSE get_next_id(store, tn, m + 1)
         ELSE [exc |-> "", val |-> table_max_id + 1, max_id |-> table_max_id + 1]

\* ------------------------------------------------------------------ is_valid_record
\* The keys of a dict in iteration order.
RECURSIVE KeyOrder(_)
KeyOrder(S) == IF S = {} THEN <<>>
               ELSE LET k == CHOOSE x \in S : TRUE IN <<k>> \o KeyOrder(S \ {k})

\* The checks of the loop over record["subrecords"], in order: for each table
\* the test that it is a declared subtable, then one check per child record.
RECURSIVE ChecksFrom(_, _, _)
ChecksFrom(subrecords, order, g) ==
    IF g > Len(order) THEN <<>>
    ELSE <<[table |-> order[g], head |-> TRUE, rec |-> <<>>]>>
         \o [k \in DOMAIN subrecords[order[g]] |->
               [table |-> order[g], head |-> FALSE, rec |-> subrecords[order[g]][k]]]
         \o ChecksFrom(subrecords, order, g + 1)

Valid == [exc |-> "", ok |-> TRUE, msg |-> "Valid"]
Invalid(m) == [exc |-> "", ok |-> FALSE, msg |-> m]

\* The first index at which a sequence of booleans is TRUE, 0 when there is
\* none: where a loop that returns on its first failure stops.
FirstTrue(flags) ==
    IF \E k \in DOMAIN flags : flags[k]
    THEN CHOOSE k \in DOMAIN flags : flags[k] /\ \A j \in 1..(k - 1) : ~flags[j]
    ELSE 0

\* is_valid_record: (ok, message), or the exception get_table raises.
RECURSIVE is_valid_record(_, _, _)
is_valid_record(store, obj, record) ==
    LET keys == DOMAIN record
        badField == FirstTrue([k \in DOMAIN obj.fields |->
                       \/ obj.fields[k].name \notin keys
                       \/ record[obj.fields[k].name].ty # valid_types[obj.fields[k].type]])
        items == ChecksFrom(record["subrecords"],
                            KeyOrder(DOMAIN record["subrecords"]), 1)
        check == [k \in DOMAIN items |->
                    IF items[k].table \notin obj.subtables
                    THEN Invalid("not defined as a subtable")
                    ELSE IF items[k].head THEN Valid
                    ELSE LET t == get_table(store, items[k].table) IN
                         IF t.exc # "" THEN [exc |-> t.exc, ok |-> FALSE, msg |-> ""]
                         ELSE is_valid_record(store, t.obj, items[k].rec)]
        badCheck == FirstTrue([k \in DOMAIN check |-> ~check[k].ok])
    IN  IF Cardinality(keys) - 2 # Len(obj.fields) THEN Invalid("number of fields")
        ELSE IF "id" \notin keys THEN Invalid("no id")
        ELSE IF "subrecords" \notin keys THEN Invalid("no subrecords")
        ELSE IF Cardinality(obj.subtables) # Cardinality(DOMAIN record["subrecords"])
             THEN Invalid("number of subtables")
        ELSE IF badField # 0
             THEN IF obj.fields[badField].name \notin keys
                  THEN Invalid("field not defined") ELSE Invalid("field type")
        ELSE IF badCheck # 0 THEN check[badCheck]
        ELSE Valid

\* ------------------------------------------------------------------ SQL text
\* What SQLite reads from the token the code writes for a str value: a double
\* quote, the characters of the value, a double quote.  Inside the token two
\* double quotes stand for one; a single one ends the token, and whatever
\* follows it before the closing quote is a syntax error.
RECURSIVE ScanQuoted(_, _, _)
ScanQuoted(s, i, acc) ==
    IF i > Len(s) THEN [ok |-> TRUE, s |-> acc]
    ELSE IF s[i] # DQ THEN ScanQuoted(s, i + 1, Append(acc, s[i]))
    ELSE IF i < Len(s) /\ s[i + 1] = DQ THEN ScanQuoted(s, i + 2, Append(acc, DQ))
    ELSE [ok |-> FALSE, s |-> <<>>]
DoubleQuoted(s) == ScanQuoted(s, 1, <<>>)

\* A double-quoted token names a column when its content spells the column's
\* name (the names of this schema's field columns are single characters; id
\* and subrecords hold characters no text value of the model has).
Spells(s, name) == Len(s) = 1 /\ s[1] = name

\* The value a field gets from its SQL text in "INSERT ... VALUES (...)": no
\* column is in scope, so a double-quoted token is a string literal.
InsertValue(v) ==
    IF v.ty = "str"
    THEN LET q == DoubleQuoted(v.s) IN
         IF q.ok THEN Return(StrV(q.s)) ELSE Raise("OperationalError")
    ELSE Return(v)

\* The value a field gets from its SQL text in "UPDATE ... SET f = ...": a
\* double-quoted token that names a column of the table is that column of the
\* row being updated, any other one a string literal.
UpdateValue(v, row) ==
    IF v.ty = "str"
    THEN LET q == DoubleQuoted(v.s) IN
         IF ~q.ok THEN Raise("OperationalError")
         ELSE IF \E f \in DOMAIN row.vals : Spells(q.s, f)
              THEN Return(row.vals[CHOOSE f \in DOMAIN row.vals : Spells(q.s, f)])
              ELSE Return(StrV(q.s))
    ELSE Return(v)

\* ------------------------------------------------------------------ save_record
\* The (table, child record) pairs of record["subrecords"], in iteration order.
RECURSIVE KidsFrom(_, _, _)
KidsFrom(subrecords, order, g) ==
    IF g > Len(order) THEN <<>>
    ELSE [k \in DOMAIN subrecords[order[g]] |->
             [table |-> order[g], rec |-> subrecords[order[g]][k]]]
         \o KidsFrom(subrecords, order, g + 1)
Kids(record) ==
    KidsFrom(record["subrecords"], KeyOrder(DOMAIN record["subrecords"]), 1)

\* subrecords_str: per child table, the ids of its child records, in order.
Manifest(record) ==
    [tn \in DOMAIN record["subrecords"] |->
        [k \in DOMAIN record["subrecords"][tn] |-> record["subrecords"][tn][k]["id"]]]

\* The field keys of a record: "for field in record" without id and subrecords.
RecordFields(record) == DOMAIN record \ {"id", "subrecords"}

\* INSERT INTO: id is the PRIMARY KEY, so a second row with an id fails.
InsertRow(store, tn, row) ==
    IF RowsAt(store, tn, row.id) # {}
    THEN [exc |-> "IntegrityError", store |-> store]
    ELSE [exc |-> "", store |-> [store EXCEPT ![tn].rows = @ \cup {row}]]

\* The statement save_record executes and commits for the record itself: an
\* UPDATE when the probe finds a row with the id, an INSERT otherwise.
WriteRecord(store, tn, record) ==
    LET fields == RecordFields(record)
        manifest == Manifest(record)
    IN  IF RowsAt(store, tn, record["id"]) # {}
        THEN LET old == RowAt(store, tn, record["id"])
                 NewRow(r) == Row(r.id,
                                  [f \in DOMAIN r.vals |->
                                     IF f \in fields THEN UpdateValue(record[f], r).val
                                     ELSE r.vals[f]],
                                  manifest)
             IN  IF \E f \in fields : UpdateValue(record[f], old).exc # ""
                 THEN [exc |-> "OperationalError", store |-> store]
                 ELSE [exc |-> "",
                       store |-> [store EXCEPT ![tn].rows =
                                    {r \in @ : r.id # record["id"]}
                                    \cup {NewRow(r) : r \in RowsAt(store, tn, record["id"])}]]
        ELSE IF fields = {} \/ \E f \in fields : InsertValue(record[f]).exc # ""
             THEN [exc |-> "OperationalError", store |-> store]
             ELSE InsertRow(store, tn,
                            Row(record["id"],
                                [f \in fields |-> InsertValue(record[f]).val],
                                manifest))

\* save_record: validate, write the record's own row, then save every child
\* record through get_table of its table.  An exception stops the call and
\* leaves the rows written so far.  The result carries the store and the log
\* of the call: the (table, id) of every row it wrote, in the order written.
RECURSIVE save_record(_, _, _)
RECURSIVE SaveKids(_, _, _)
Saved(e, store, log) == [exc |-> e, store |-> store, log |-> log]
SaveKids(store, kids, k) ==
    IF k > Len(kids) THEN Saved("", store, <<>>)
    ELSE LET t == get_table(store, kids[k].table) IN
         IF t.exc # "" THEN Saved(t.exc, store, <<>>)
         ELSE LET s == save_record(store, t.obj, kids[k].rec) IN
              IF s.exc # "" THEN s
              ELSE LET rest == SaveKids(s.store, kids, k + 1)
                   IN  Saved(rest.exc, rest.store, s.log \o rest.log)

\* The record with its child groups emptied.
WithoutKids(record) ==
    [key \in DOMAIN record |->
        IF key = "subrecords" THEN [tn \in DOMAIN record[key] |-> <<>>]
        ELSE record[key]]

\* The mutant of save_record that validates each record only when it comes to
\* write it: a record whose own shape is valid is written before the error
\* for an invalid child is raised.
save_record_lazy(store, obj, record) ==
    LET v == is_valid_record(store, obj, record) IN
    IF v.exc # "" THEN Saved(v.exc, store, <<>>)
    ELSE IF ~v.ok
    THEN IF is_valid_record(store, obj, WithoutKids(record)).ok
         THEN Saved("InvalidRecordError",
                    WriteRecord(store, obj.table_name, record).store,
                    <<[table |-> obj.table_name, id |-> record["id"]]>>)
         ELSE Saved("InvalidRecordError", store, <<>>)
    ELSE LET w == WriteRecord(store, obj.table_name, record) IN
         IF w.exc # "" THEN Saved(w.exc, w.store, <<>>)
         ELSE LET kids == SaveKids(w.store, Kids(record), 1)
                  own == <<[table |-> obj.table_name, id |-> record["id"]]>>
              IN  Saved(kids.exc, kids.store, own \o kids.log)

\* The mutant of save_record that saves the children before the record's own
\* row (a post-order save).
save_record_post_order(store, obj, record) ==
    LET v == is_valid_record(store, obj, record) IN
    IF v.exc # "" THEN Saved(v.exc, store, <<>>)
    ELSE IF ~v.ok THEN Saved("InvalidRecordError", store, <<>>)
    ELSE LET kids == SaveKids(store, Kids(record), 1) IN
         IF kids.exc # "" THEN kids
         ELSE LET w == WriteRecord(kids.store, obj.table_name, record)
                  own == <<[table |-> obj.table_name, id |-> record["id"]]>>
              IN  IF w.exc # "" THEN Saved(w.exc, w.store, kids.log)
                  ELSE Saved("", w.store, kids.log \o own)

\* The mutant of save_record that undoes the rows it wrote when a child's save
\* raises (a tree save in one transaction).
save_record_atomic(store, obj, record) ==
    LET v == is_valid_record(store, obj, record) IN
    IF v.exc # "" THEN Saved(v.exc, store, <<>>)
    ELSE IF ~v.ok THEN Saved("InvalidRecordError", store, <<>>)
    ELSE LET w == WriteRecord(store, obj.table_name, record) IN
         IF w.exc # "" THEN Saved(w.exc, w.store, <<>>)
         ELSE LET kids == SaveKids(w.store, Kids(record), 1)
                  own == <<[table |-> obj.table_name, id |-> record["id"]]>>
              IN  IF kids.exc # "" THEN Saved(kids.exc, store, <<>>)
                  ELSE Saved("", kids.store, own \o kids.log)

save_record(store, obj, record) ==
    LET v == is_valid_record(store, obj, record) IN
    IF v.exc # "" THEN Saved(v.exc, store, <<>>)
    ELSE IF ~v.ok THEN Saved("InvalidRecordError", store, <<>>)
    ELSE LET w == WriteRecord(store, obj.table_name, record) IN
         IF w.exc # "" THEN Saved(w.exc, w.store, <<>>)
         ELSE LET kids == SaveKids(w.store, Kids(record), 1)
                  own == <<[table |-> obj.table_name, id |-> record["id"]]>>
              IN  Saved(kids.exc, kids.store, own \o kids.log)

\* ------------------------------------------------------------------ get_record
\* "SELECT id, <fields>, subrecords": with no field the text is "id, , subrecords".
SelectFails(obj) == Len(obj.fields) = 0

\* The record dict of a fetched row: id, the fields, and under subrecords,
\* per table of the manifest, get_table(table).get_record(i) for each id.
RECURSIVE get_record(_, _, _)
RECURSIVE Hydrate(_, _, _)

\* The record dict of a row: id, the fields and the fetched child records.
RecordOf(obj, row, children) ==
    [key \in {"id", "subrecords"} \cup FieldNames(obj.fields) |->
        IF key = "id" THEN row.id
        ELSE IF key = "subrecords" THEN children
        ELSE row.vals[key]]

\* The mutant of Hydrate that leaves out the child ids it cannot fetch.
HydrateSkipping(store, obj, row) ==
    LET got == [tn \in DOMAIN row.subrecords |->
                  [k \in DOMAIN row.subrecords[tn] |->
                     LET t == get_table(store, tn) IN
                     IF t.exc # "" THEN Raise(t.exc)
                     ELSE get_record(store, t.obj, row.subrecords[tn][k])]]
        Fetched(g) == g.exc = ""
    IN  Return(RecordOf(obj, row,
                 [tn \in DOMAIN got |->
                    LET kept == SelectSeq(got[tn], Fetched)
                    IN  [k \in DOMAIN kept |-> kept[k].val]]))

\* The mutant of get_record that leaves out the test "resp is None".
get_record_unchecked(store, obj, id) ==
    IF SelectFails(obj) THEN Raise("OperationalError")
    ELSE IF RowsAt(store, obj.table_name, id) = {}
    THEN Return(RecordOf(obj, Row(id, [f \in FieldNames(obj.fields) |-> NoneV], <<>>),
                         <<>>))
    ELSE Hydrate(store, obj, RowAt(store, obj.table_name, id))

Hydrate(store, obj, row) ==
    LET order == KeyOrder(DOMAIN row.subrecords)
        got == [tn \in DOMAIN row.subrecords |->
                  [k \in DOMAIN row.subrecords[tn] |->
                     LET t == get_table(store, tn) IN
                     IF t.exc # "" THEN Raise(t.exc)
                     ELSE get_record(store, t.obj, row.subrecords[tn][k])]]
        firstTable == FirstTrue([j \in DOMAIN order |->
                         \E k \in DOMAIN got[order[j]] : got[order[j]][k].exc # ""])
    IN  IF firstTable # 0
        THEN LET g == got[order[firstTable]]
             IN  Raise(g[FirstTrue([k \in DOMAIN g |-> g[k].exc # ""])].exc)
        ELSE Return(RecordOf(obj, row,
                      [tn \in DOMAIN got |-> [k \in DOMAIN got[tn] |-> got[tn][k].val]]))
get_record(store, obj, id) ==
    IF SelectFails(obj) THEN Raise("OperationalError")
    ELSE IF RowsAt(store, obj.table_name, id) = {} THEN Raise("InvalidRecordError")
    ELSE Hydrate(store, obj, RowAt(store, obj.table_name, id))

\* ------------------------------------------------------------------ fetchall
\* The rows of a relation in the order a scan yields them (by id).
RECURSIVE RowOrder(_)
RowOrder(rows) ==
    IF rows = {} THEN <<>>
    ELSE LET r == CHOOSE x \in rows : \A y \in rows : x.id <= y.id
         IN  <<r>> \o RowOrder(rows \ {r})

\* fetchall: the record dict of every row the SELECT returns.
fetchall(store, obj) ==
    IF SelectFails(obj) THEN Raise("OperationalError")
    ELSE LET resp == RowOrder(RowsOf(store, obj.table_name))
             got == [k \in DOMAIN resp |-> Hydrate(store, obj, resp[k])]
             bad == FirstTrue([k \in DOMAIN got |-> got[k].exc # ""])
         IN  IF bad # 0 THEN Raise(got[bad].exc)
             ELSE Return([k \in DOMAIN got |-> got[k].val])

\* ------------------------------------------------------------------ delete_record
\* The mutant of delete_record that also deletes the child rows the deleted
\* row lists (a cascading delete).
delete_record_cascading(store, tn, id) ==
    [exc |-> "",
     store |-> [u \in DOMAIN store |->
                  [store[u] EXCEPT !.rows =
                      {r \in @ : ~(u = tn /\ r.id = id)
                                 /\ ~\E x \in RowsAt(store, tn, id) :
                                       /\ u \in DOMAIN x.subrecords
                                       /\ \E k \in DOMAIN x.subrecords[u] :
                                             x.subrecords[u][k] = r.id}]]]

\* The mutant of delete_record that raises when no row has the id.
delete_record_checked(store, tn, id) ==
    IF RowsAt(store, tn, id) = {}
    THEN [exc |-> "InvalidRecordError", store |-> store]
    ELSE [exc |-> "", store |-> [store EXCEPT ![tn].rows = {r \in @ : r.id # id}]]

\* DELETE FROM table WHERE id = x, committed: no row with the id is no error.
delete_record(store, tn, id) ==
    [exc |-> "", store |-> [store EXCEPT ![tn].rows = {r \in @ : r.id # id}]]

\* ------------------------------------------------------------------ create_record
\* create_record: a fresh id, the caller's fields and subrecords, validated.
\* The id is drawn, and the cache advanced, before the record is validated;
\* the result names the id drawn (0 when get_next_id raised).
create_record(store, obj, m, fields, subrecords) ==
    LET n == get_next_id(store, obj.table_name, m) IN
    IF n.exc # "" THEN [exc |-> n.exc, val |-> NoneV, max_id |-> n.max_id, id |-> 0]
    ELSE LET record == [key \in {"id", "subrecords"} \cup DOMAIN fields |->
                          IF key = "subrecords" THEN subrecords
                          ELSE IF key \in DOMAIN fields THEN fields[key]
                          ELSE n.val]
             v == is_valid_record(store, obj, record)
         IN  IF v.exc # ""
             THEN [exc |-> v.exc, val |-> NoneV, max_id |-> n.max_id, id |-> n.val]
             ELSE IF ~v.ok
                  THEN [exc |-> "InvalidRecordError", val |-> NoneV,
                        max_id |-> n.max_id, id |-> n.val]
                  ELSE [exc |-> "", val |-> record, max_id |-> n.max_id, id |-> n.val]

\* ------------------------------------------------------------------ _get_keywords
\* str.strip(): the text without its leading and trailing spaces.
RECURSIVE LStrip(_)
LStrip(s) == IF s # <<>> /\ Head(s) = SP THEN LStrip(Tail(s)) ELSE s
RECURSIVE RStrip(_)
RStrip(s) == IF s # <<>> /\ s[Len(s)] = SP THEN RStrip(SubSeq(s, 1, Len(s) - 1)) ELSE s
Strip(s) == RStrip(LStrip(s))

\* s.count(c), and s.find(c) as a position from 1 (0 when c is not in s).
Count(s, c) == Cardinality({i \in DOMAIN s : s[i] = c})
Find(s, c) == IF \E i \in DOMAIN s : s[i] = c
              THEN CHOOSE i \in DOMAIN s : s[i] = c /\ \A j \in 1..(i - 1) : s[j] # c
              ELSE 0

\* _get_keywords: the key words and key phrases of a query.  s[0] on a text
\* that is empty after strip() raises IndexError.
RECURSIVE get_keywords(_)
get_keywords(query) ==
    LET s == Strip(query) IN
    IF s = <<>> THEN Raise("IndexError")
    ELSE IF s[1] = DQ /\ Count(s, DQ) > 1
    THEN LET phrase_end == Find(Tail(s), DQ) + 1
             rest == get_keywords(SubSeq(s, phrase_end + 1, Len(s)))
         IN  IF rest.exc # "" THEN rest
             ELSE Return(<<SubSeq(s, 2, phrase_end - 1)>> \o rest.val)
    ELSE IF Find(s, SP) # 0
    THEN LET space_loc == Find(s, SP)
             rest == get_keywords(SubSeq(s, space_loc + 1, Len(s)))
         IN  IF rest.exc # "" THEN rest
             ELSE Return(<<SubSeq(s, 1, space_loc - 1)>> \o rest.val)
    ELSE Return(<<s>>)

\* ------------------------------------------------------------------ search SQL
\* The text of a WHERE clause is a sequence of symbols: the characters of the
\* caller's texts (letters, SP, DQ) and the words of the statement the code
\* writes around them.  A word stands for itself and the spaces that set it
\* apart: "(", ")", "%", "=", "!=", LIKE, OR, AND, the column name id and the
\* digits.
Letters == {"t", "T"}
Digits == <<"0", "1", "2", "3", "4", "5", "6", "7", "8", "9">>
\* str(n) for an id, and the number a digit word writes.
NumWord(n) == Digits[n + 1]
IntOf(w) == (CHOOSE i \in DOMAIN Digits : Digits[i] = w) - 1

\* The tokens SQLite reads from the text.  A double quote opens a string that
\* runs to the next single double quote (two in a row stand for one inside
\* it); a string that is still open at the end of the text is an error.  A run
\* of letters is an identifier.
Token(k, chars, w) == [k |-> k, s |-> chars, w |-> w]
RECURSIVE ScanString(_, _, _)
ScanString(text, i, acc) ==
    IF i > Len(text) THEN [ok |-> FALSE, s |-> <<>>, next |-> i]
    ELSE IF text[i] # DQ THEN ScanString(text, i + 1, Append(acc, text[i]))
    ELSE IF i < Len(text) /\ text[i + 1] = DQ
         THEN ScanString(text, i + 2, Append(acc, DQ))
    ELSE [ok |-> TRUE, s |-> acc, next |-> i + 1]
RECURSIVE LetterRun(_, _)
LetterRun(text, i) ==
    IF i <= Len(text) /\ text[i] \in Letters THEN LetterRun(text, i + 1) ELSE i
RECURSIVE Lex(_, _, _)
Lex(text, i, acc) ==
    IF i > Len(text) THEN [ok |-> TRUE, toks |-> acc]
    ELSE IF text[i] = SP THEN Lex(text, i + 1, acc)
    ELSE IF text[i] = DQ
    THEN LET q == ScanString(text, i + 1, <<>>) IN
         IF ~q.ok THEN [ok |-> FALSE, toks |-> <<>>]
         ELSE Lex(text, q.next, Append(acc, Token("str", q.s, "")))
    ELSE IF text[i] \in Letters
    THEN LET j == LetterRun(text, i)
         IN  Lex(text, j, Append(acc, Token("id", SubSeq(text, i, j - 1), "")))
    ELSE IF text[i] = "id" THEN Lex(text, i + 1, Append(acc, Token("id", <<"id">>, "")))
    ELSE IF text[i] \in Range(Digits)
    THEN Lex(text, i + 1, Append(acc, Token("num", <<>>, text[i])))
    ELSE Lex(text, i + 1, Append(acc, Token("op", <<>>, text[i])))

\* Column names are matched without regard to case.
Fold(c) == IF c = "T" THEN "t" ELSE c
\* The name (of an identifier, or between double quotes) names a column of
\* the row's relation; the value of that column.
Resolves(name, row) ==
    \/ name = <<"id">>
    \/ Len(name) = 1 /\ Fold(name[1]) \in DOMAIN row.vals
ColumnValue(name, row) ==
    IF name = <<"id">> THEN IntV(row.id) ELSE row.vals[Fold(name[1])]

\* SQL values are IntV, StrV and NoneV (NULL).  A text used as a number is the
\* number it starts with, 0 when it starts with none.
CastInt(v) ==
    IF v.ty = "int" THEN v.i
    ELSE IF LStrip(v.s) # <<>> /\ Head(LStrip(v.s)) \in Range(Digits)
         THEN IntOf(Head(LStrip(v.s)))
         ELSE 0
TextOf(v) == IF v.ty = "int" THEN <<NumWord(v.i)>> ELSE v.s
SqlBool(b) == IF b THEN IntV(1) ELSE IntV(0)
SqlOr(a, b) ==
    IF (a # NoneV /\ CastInt(a) # 0) \/ (b # NoneV /\ CastInt(b) # 0) THEN IntV(1)
    ELSE IF a = NoneV \/ b = NoneV THEN NoneV
    ELSE IntV(0)
SqlAnd(a, b) ==
    IF (a # NoneV /\ CastInt(a) = 0) \/ (b # NoneV /\ CastInt(b) = 0) THEN IntV(0)
    ELSE IF a = NoneV \/ b = NoneV THEN NoneV
    ELSE IntV(1)
\* a = b: a text and a number are never equal (no text of the model spells
\* the number it is compared with).
SqlEq(a, b) ==
    IF a = NoneV \/ b = NoneV THEN NoneV ELSE SqlBool(a = b)
SqlNe(a, b) ==
    IF a = NoneV \/ b = NoneV THEN NoneV ELSE SqlBool(a # b)
SqlMod(a, b) ==
    IF a = NoneV \/ b = NoneV \/ CastInt(b) = 0 THEN NoneV
    ELSE IntV(CastInt(a) % CastInt(b))
\* LIKE: "%" in the pattern matches any run of characters, every other
\* character matches itself without regard to the case of letters.
RECURSIVE LikeMatch(_, _)
LikeMatch(pattern, value) ==
    IF pattern = <<>> THEN value = <<>>
    ELSE IF Head(pattern) = "%"
    THEN \E k \in 0..Len(value) :
            LikeMatch(Tail(pattern), SubSeq(value, k + 1, Len(value)))
    ELSE /\ value # <<>>
         /\ Fold(Head(pattern)) = Fold(Head(value))
         /\ LikeMatch(Tail(pattern), Tail(value))
SqlLike(a, b) ==
    IF a = NoneV \/ b = NoneV THEN NoneV ELSE SqlBool(LikeMatch(TextOf(b), TextOf(a)))

\* The value of the WHERE expression for one row, as SQLite parses it: from
\* the loosest to the tightest binding OR, AND, the comparisons (=, !=, LIKE),
\* then %.  ok is FALSE for a syntax error or a name that is no column;
\* pos is the place of the first token not read.
Parsed(pos, v) == [ok |-> TRUE, pos |-> pos, val |-> v]
NotParsed == [ok |-> FALSE, pos |-> 0, val |-> NoneV]
IsOp(toks, pos, w) == pos <= Len(toks) /\ toks[pos].k = "op" /\ toks[pos].w = w
RECURSIVE OrExpr(_, _, _)
RECURSIVE OrTail(_, _, _)
RECURSIVE AndExpr(_, _, _)
RECURSIVE AndTail(_, _, _)
RECURSIVE CmpExpr(_, _, _)
RECURSIVE CmpTail(_, _, _)
RECURSIVE ModExpr(_, _, _)
RECURSIVE ModTail(_, _, _)
RECURSIVE Primary(_, _, _)
\* "(" expression ")": inner is the expression read after the "(".
Closed(toks, inner) ==
    IF inner.ok /\ IsOp(toks, inner.pos, ")")
    THEN Parsed(inner.pos + 1, inner.val)
    ELSE NotParsed
Primary(toks, pos, row) ==
    IF pos > Len(toks) THEN NotParsed
    ELSE IF toks[pos].k = "str"
    THEN Parsed(pos + 1, IF Resolves(toks[pos].s, row)
                         THEN ColumnValue(toks[pos].s, row)
                         ELSE StrV(toks[pos].s))
    ELSE IF toks[pos].k = "id"
    THEN IF Resolves(toks[pos].s, row)
         THEN Parsed(pos + 1, ColumnValue(toks[pos].s, row))
         ELSE NotParsed
    ELSE IF toks[pos].k = "num" THEN Parsed(pos + 1, IntV(IntOf(toks[pos].w)))
    ELSE IF IsOp(toks, pos, "(") THEN Closed(toks, OrExpr(toks, pos + 1, row))
    ELSE NotParsed
\* left w right, for the operand right read after the operator w.
Applied(w, left, right) ==
    IF ~right.ok THEN NotParsed
    ELSE Parsed(right.pos,
                IF w = "%" THEN SqlMod(left.val, right.val)
                ELSE IF w = "=" THEN SqlEq(left.val, right.val)
                ELSE IF w = "!=" THEN SqlNe(left.val, right.val)
                ELSE IF w = "LIKE" THEN SqlLike(left.val, right.val)
                ELSE IF w = "AND" THEN SqlAnd(left.val, right.val)
                ELSE SqlOr(left.val, right.val))
ModTail(toks, left, row) ==
    IF ~left.ok \/ ~IsOp(toks, left.pos, "%") THEN left
    ELSE ModTail(toks, Applied("%", left, Primary(toks, left.pos + 1, row)), row)
ModExpr(toks, pos, row) == ModTail(toks, Primary(toks, pos, row), row)
CmpTail(toks, left, row) ==
    IF ~left.ok \/ ~\E w \in {"=", "!=", "LIKE"} : IsOp(toks, left.pos, w) THEN left
    ELSE CmpTail(toks, Applied(toks[left.pos].w, left,
                               ModExpr(toks, left.pos + 1, row)), row)
CmpExpr(toks, pos, row) == CmpTail(toks, ModExpr(toks, pos, row), row)
AndTail(toks, left, row) ==
    IF ~left.ok \/ ~IsOp(toks, left.pos, "AND") THEN left
    ELSE AndTail(toks, Applied("AND", left, CmpExpr(toks, left.pos + 1, row)), row)
AndExpr(toks, pos, row) == AndTail(toks, CmpExpr(toks, pos, row), row)
OrTail(toks, left, row) ==
    IF ~left.ok \/ ~IsOp(toks, left.pos, "OR") THEN left
    ELSE OrTail(toks, Applied("OR", left, AndExpr(toks, left.pos + 1, row)), row)
OrExpr(toks, pos, row) == OrTail(toks, AndExpr(toks, pos, row), row)

\* "SELECT id FROM table WHERE <text>": the ids of the rows for which the
\* expression is true, in the order of a scan, or OperationalError when the
\* text is no expression (the statement is compiled whether or not the
\* relation has rows: Blank is a row of NULLs to compile it against).
Blank(store, tn) == Row(0, [f \in FieldNames(store[tn].cols) |-> NoneV], <<>>)
Complete(toks, where) == where.ok /\ where.pos = Len(toks) + 1
IsTrue(v) == v # NoneV /\ CastInt(v) # 0
IdsOf(rows) == [k \in DOMAIN rows |-> rows[k].id]
SelectToks(store, tn, lexed) ==
    IF ~lexed.ok \/ ~Complete(lexed.toks, OrExpr(lexed.toks, 1, Blank(store, tn)))
    THEN Raise("OperationalError")
    ELSE Return(IdsOf(SelectSeq(RowOrder(RowsOf(store, tn)),
                                LAMBDA row : IsTrue(OrExpr(lexed.toks, 1, row).val))))
Select(store, tn, text) == SelectToks(store, tn, Lex(text, 1, <<>>))

\* ------------------------------------------------------------------ search_records
\* " AND id != x" for every x of exclude_ids.
RECURSIVE ExcludeText(_)
ExcludeText(exclude_ids) ==
    IF exclude_ids = {} THEN <<>>
    ELSE LET x == CHOOSE y \in exclude_ids : \A z \in exclude_ids : y <= z
         IN  <<"AND", "id", "!=", NumWord(x)>> \o ExcludeText(exclude_ids \ {x})

\* field LIKE "%key_word%"
LikeText(field, key_word) == <<field, "LIKE", DQ, "%">> \o key_word \o <<"%", DQ>>
RECURSIVE OrLikes(_, _, _)
OrLikes(field, key_words, k) ==
    IF k > Len(key_words) THEN <<>>
    ELSE <<"OR">> \o LikeText(field, key_words[k]) \o OrLikes(field, key_words, k + 1)

\* The text after WHERE in strict mode, and in relative mode.
StrictText(field, search_for, exclude_ids) ==
    <<field, "=">> \o search_for \o ExcludeText(exclude_ids)
RelativeText(field, key_words, search_for, exclude_ids) ==
    <<"(">> \o LikeText(field, key_words[1]) \o OrLikes(field, key_words, 2)
    \o <<"OR">> \o LikeText(field, search_for) \o <<")">>
    \o ExcludeText(exclude_ids)

\* search_records: the records of the rows the statement selects.
search_records(store, obj, field, search_for, exclude_ids, strict) ==
    IF field \notin FieldNames(obj.fields) THEN Raise("InvalidRecordError")
    ELSE LET key_words == IF strict THEN Return(<<>>) ELSE get_keywords(search_for) IN
         IF key_words.exc # "" THEN Raise(key_words.exc)
         ELSE LET text == IF strict THEN StrictText(field, search_for, exclude_ids)
                          ELSE RelativeText(field, key_words.val, search_for, exclude_ids)
                  resp == Select(store, obj.table_name, text)
              IN  IF resp.exc # "" THEN Raise(resp.exc)
                  ELSE LET got == [k \in DOMAIN resp.val |->
                                     get_record(store, obj, resp.val[k])]
                           bad == FirstTrue([k \in DOMAIN got |-> got[k].exc # ""])
                       IN  IF bad # 0 THEN Raise(got[bad].exc)
                           ELSE Return([k \in DOMAIN got |-> got[k].val])

\* ------------------------------------------------------------------ state
\* db: the SQLite file, table name -> [cols, rows].
\* max_id: the _max_id of each handle.
\* ret: the last call: the method, its handle and arguments (id, rec), the
\*      exception it raised ("" when none) and the value it returned; hit is
\*      the number of rows that had the call's id before it, and id is the id
\*      get_next_id returned when the call is get_next_id or create_record (0
\*      when it raised).  chain and built follow a record from create_record
\*      (1) through the save_record of it (2) to the get_record of its id (3).
\* returned: per handle, the ids get_next_id has returned so far.
\* nops: the number of calls made.
VARIABLES db, max_id, ret, returned, nops
vars == <<db, max_id, ret, returned, nops>>

\* ------------------------------------------------------------------ inputs
Ids == 0..MaxId

RECURSIVE SeqsUpTo(_, _)
SeqsUpTo(S, n) ==
    IF n = 0 THEN {<<>>}
    ELSE LET shorter == SeqsUpTo(S, n - 1)
         IN  shorter \cup {Append(q, x) : q \in shorter, x \in S}

\* The values callers pass for the TEXT field t and the INTEGER field n.
Texts == SeqsUpTo(Chars, MaxText)
Ints == {1}

\* Records of the shape of table C and of table P.
CRecords == {[id |-> i, n |-> IntV(v), subrecords |-> <<>>] : i \in Ids, v \in Ints}
PRecords == {[id |-> i, t |-> StrV(s), subrecords |-> [C |-> ks]] :
                i \in Ids, s \in Texts, ks \in SeqsUpTo(CRecords, MaxKids)}
Records == PRecords \cup CRecords

\* The arguments of create_record: fields, and subrecords (its default is {}).
FieldArgs(h) == IF h = "hP" THEN {[t |-> StrV(s)] : s \in Texts}
                ELSE {[n |-> IntV(v)] : v \in Ints}
SubrecordArgs(h) == IF h = "hP"
                    THEN {<<>>} \cup {[C |-> ks] : ks \in SeqsUpTo(CRecords, MaxKids)}
                    ELSE {<<>>}

\* ------------------------------------------------------------------ actions
NoRec == <<>>
Call(op, h, id, rec, r, hit, chain, built) ==
    [op |-> op, h |-> h, id |-> id, rec |-> rec, exc |-> r.exc, val |-> r.val,
     hit |-> hit, chain |-> chain, built |-> built]

Init ==
    /\ db = InitStore
    /\ max_id = [h \in Handles |-> 0]
    /\ ret = Call("init", "", 0, NoRec, Return(NoneV), 0, 0, NoRec)
    /\ returned = [h \in Handles |-> {}]
    /\ nops = 0

\* h.get_next_id()
GetNextId(h) ==
    LET n == get_next_id(db, HandleTable(h), max_id[h]) IN
    /\ nops < MaxOps
    /\ n.exc = "" => n.val <= MaxId
    /\ max_id' = [max_id EXCEPT ![h] = n.max_id]
    /\ returned' = IF n.exc = "" THEN [returned EXCEPT ![h] = @ \cup {n.val}]
                   ELSE returned
    /\ ret' = Call("get_next_id", h, IF n.exc = "" THEN n.val ELSE 0, NoRec, n, 0, 0, NoRec)
    /\ nops' = nops + 1
    /\ UNCHANGED db

\* h.create_record(fields, subrecords)
CreateRecord(h, fields, subrecords) ==
    LET c == create_record(db, HandleObj(h), max_id[h], fields, subrecords) IN
    /\ nops < MaxOps
    /\ c.id <= MaxId
    /\ max_id' = [max_id EXCEPT ![h] = c.max_id]
    /\ returned' = IF c.id # 0 THEN [returned EXCEPT ![h] = @ \cup {c.id}]
                   ELSE returned
    /\ ret' = Call("create_record", h, c.id, [fields |-> fields, subrecords |-> subrecords],
                   c, 0, IF c.exc = "" THEN 1 ELSE 0,
                   IF c.exc = "" THEN c.val ELSE NoRec)
    /\ nops' = nops + 1
    /\ UNCHANGED db

\* h.save_record(record), for a record the caller wrote by hand.
SaveRecord(h, record) ==
    LET s == save_record(db, HandleObj(h), record) IN
    /\ nops < MaxOps
    /\ db' = s.store
    /\ ret' = Call("save_record", h, record["id"], record, Raise(s.exc),
                   Cardinality(RowsAt(db, HandleTable(h), record["id"])), 0, NoRec)
    /\ nops' = nops + 1
    /\ UNCHANGED <<max_id, returned>>

\* h.save_record(record), for the record h.create_record has just returned.
SaveBuilt(h) ==
    /\ ret.op = "create_record" /\ ret.exc = "" /\ ret.h = h
    /\ LET s == save_record(db, HandleObj(h), ret.val) IN
       /\ nops < MaxOps
       /\ db' = s.store
       /\ ret' = Call("save_record", h, ret.val["id"], ret.val, Raise(s.exc),
                      Cardinality(RowsAt(db, HandleTable(h), ret.val["id"])),
                      2, ret.val)
    /\ nops' = nops + 1
    /\ UNCHANGED <<max_id, returned>>

\* h.get_record(id)
GetRecord(h, id) ==
    LET g == get_record(db, HandleObj(h), id)
        after == ret.op = "save_record" /\ ret.chain = 2 /\ ret.exc = ""
                 /\ ret.h = h /\ ret.id = id
    IN
    /\ nops < MaxOps
    /\ ret' = Call("get_record", h, id, NoRec, g,
                   Cardinality(RowsAt(db, HandleTable(h), id)),
                   IF after THEN 3 ELSE 0, IF after THEN ret.built ELSE NoRec)
    /\ nops' = nops + 1
    /\ UNCHANGED <<db, max_id, returned>>

\* h.fetchall()
FetchAll(h) ==
    /\ nops < MaxOps
    /\ ret' = Call("fetchall", h, 0, NoRec, fetchall(db, HandleObj(h)), 0, 0, NoRec)
    /\ nops' = nops + 1
    /\ UNCHANGED <<db, max_id, returned>>

\* h.delete_record(id)
DeleteRecord(h, id) ==
    /\ nops < MaxOps
    /\ db' = delete_record(db, HandleTable(h), id).store
    /\ ret' = Call("delete_record", h, id, NoRec,
                   Raise(delete_record(db, HandleTable(h), id).exc),
                   Cardinality(RowsAt(db, HandleTable(h), id)), 0, NoRec)
    /\ nops' = nops + 1
    /\ UNCHANGED <<max_id, returned>>

Next ==
    \/ \E h \in Handles : GetNextId(h)
    \/ \E h \in Handles : \E fields \in FieldArgs(h) :
          \E subrecords \in SubrecordArgs(h) : CreateRecord(h, fields, subrecords)
    \/ \E h \in Handles : \E record \in Records : SaveRecord(h, record)
    \/ \E h \in Handles : SaveBuilt(h)
    \/ \E h \in Handles : \E id \in Ids : GetRecord(h, id)
    \/ \E h \in Handles : FetchAll(h)
    \/ \E h \in Handles : \E id \in Ids : DeleteRecord(h, id)

Spec == Init /\ [][Next]_vars

\* ------------------------------------------------------------------ trees
\* The application whose tables declare each other: M (children N and C) and
\* N (child M), with handles hM, hN and hC.
TreeTables == {"M", "N", "C"}
TreeHandles == {"hM", "hN", "hC"}

\* The store after Table("C", ...), Table("M", ...) and Table("N", ...) on an
\* empty file.
TreeStore ==
    CreateSelf(CreateSelf(CreateSelf(<<>>, "C", DeclFields("C"), DeclSubtables("C")),
                          "M", DeclFields("M"), DeclSubtables("M")),
               "N", DeclFields("N"), DeclSubtables("N"))

\* The record trees callers pass.  An M record has the id 1, a str for t (the
\* letter t, or one double quote) and its groups N and C; an N record has the
\* id 1, n = 1 and its group M, or no group at all; a C record is a leaf.
CLeaves == {[id |-> i, n |-> IntV(1), subrecords |-> <<>>] : i \in 1..MaxLeaves}
MValues == {StrV(<<"t">>), StrV(<<DQ>>)}
RECURSIVE MTrees(_)
RECURSIVE NTrees(_)
MTrees(d) ==
    IF d = 0 THEN {}
    ELSE {[id |-> 1, t |-> v, subrecords |-> [N |-> ns, C |-> cs]] :
             v \in MValues, ns \in SeqsUpTo(NTrees(d - 1), MaxKids),
             cs \in SeqsUpTo(CLeaves, MaxLeaves)}
NTrees(d) ==
    IF d = 0 THEN {}
    ELSE {[id |-> 1, n |-> IntV(1), subrecords |-> <<>>]}
         \cup {[id |-> 1, n |-> IntV(1), subrecords |-> [M |-> ms]] :
                  ms \in SeqsUpTo(MTrees(d - 1), MaxKids)}

\* Records for table M whose own keys or values are wrong: an int for t, a field
\* missing, a field too many, another field in the place of t, no id, no
\* subrecords, an undeclared child table in the place of C, a child table
\* missing, a child table too many.
Malformed ==
    {[id |-> 1, t |-> IntV(1), subrecords |-> [N |-> <<>>, C |-> <<>>]],
     [id |-> 1, subrecords |-> [N |-> <<>>, C |-> <<>>]],
     [id |-> 1, t |-> StrV(<<"t">>), x |-> IntV(1), subrecords |-> [N |-> <<>>, C |-> <<>>]],
     [id |-> 1, x |-> StrV(<<"t">>), subrecords |-> [N |-> <<>>, C |-> <<>>]],
     [t |-> StrV(<<"t">>), x |-> IntV(1), subrecords |-> [N |-> <<>>, C |-> <<>>]],
     [id |-> 1, t |-> StrV(<<"t">>), x |-> IntV(1)],
     [id |-> 1, t |-> StrV(<<"t">>), subrecords |-> [N |-> <<>>, Z |-> <<>>]],
     [id |-> 1, t |-> StrV(<<"t">>), subrecords |-> [N |-> <<>>]],
     [id |-> 1, t |-> StrV(<<"t">>), subrecords |-> [N |-> <<>>, C |-> <<>>, Z |-> <<>>]]}

\* The records callers pass to the handle of M, and to the handle of N.
MRecords == MTrees(MaxDepth) \cup Malformed
NRecords == NTrees(MaxDepth)
Trees(h) == IF h = "hM" THEN MRecords ELSE IF h = "hN" THEN NRecords ELSE CLeaves

\* The id of a record, 0 when it has none.
IdOf(record) == IF "id" \in DOMAIN record THEN record["id"] ELSE 0

\* h.is_valid_record(record)
IsValidRecord(h, record) ==
    LET v == is_valid_record(db, HandleObj(h), record) IN
    /\ nops < MaxTreeOps
    /\ ret' = Call("is_valid_record", h, IdOf(record), record,
                   [exc |-> v.exc, val |-> v.ok], 0, 0, NoRec)
    /\ nops' = nops + 1
    /\ UNCHANGED <<db, max_id, returned>>

\* h.save_record(record) of a record tree; ret.log is the log of the call.
SaveTree(h, record) ==
    LET s == save_record(db, HandleObj(h), record) IN
    /\ nops < MaxTreeOps
    /\ db' = s.store
    /\ ret' = [log |-> s.log]
               @@ Call("save_record", h, IdOf(record), record, Raise(s.exc),
                       Cardinality(RowsAt(db, HandleTable(h), IdOf(record))), 0, NoRec)
    /\ nops' = nops + 1
    /\ UNCHANGED <<max_id, returned>>

TreeInit ==
    /\ db = TreeStore
    /\ max_id = [h \in TreeHandles |-> 0]
    /\ ret = Call("init", "", 0, NoRec, Return(NoneV), 0, 0, NoRec)
    /\ returned = [h \in TreeHandles |-> {}]
    /\ nops = 0

TreeNext ==
    \/ \E h \in TreeHandles : \E record \in Trees(h) : IsValidRecord(h, record)
    \/ \E h \in TreeHandles : \E record \in Trees(h) : SaveTree(h, record)
    \/ \E h \in TreeHandles : \E id \in Ids : DeleteRecord(h, id)

TreeSpec == TreeInit /\ [][TreeNext]_vars

\* ------------------------------------------------------------------ search
\* The application with tables P and C again, searching P.  The texts saved
\* in the field t, the records saved, and the arguments of search_records: a
\* declared or an undeclared field, the query (in strict mode the SQL text of a
\* value: the column or quoted text t, the number 1, the word OR), the ids
\* excluded.
SearchTexts == {<<>>, <<"t">>, <<"T">>}
SavedRecords == {[id |-> i, t |-> StrV(s), subrecords |-> [C |-> <<>>]] :
                    i \in 1..MaxId, s \in SearchTexts}
Queries == SeqsUpTo(QueryChars, MaxSearch)
StrictQueries == SeqsUpTo({"t", DQ, "1", "OR"}, MaxStrict)

\* h.search_records(field, search_for, exclude_ids, strict).  A search changes
\* nothing in the store or the handle, so it is the last call of a behaviour.
SearchRecords(h, field, search_for, exclude_ids, strict) ==
    /\ nops < MaxOps
    /\ ret' = Call("search_records", h, 0,
                   [field |-> field, search_for |-> search_for,
                    exclude_ids |-> exclude_ids, strict |-> strict],
                   search_records(db, HandleObj(h), field, search_for, exclude_ids, strict),
                   0, 0, NoRec)
    /\ nops' = MaxOps
    /\ UNCHANGED <<db, max_id, returned>>

SearchNext ==
    \/ \E record \in SavedRecords : SaveRecord("hP", record)
    \/ \E field \in {"t", "x"} : \E search_for \in Queries :
          \E exclude_ids \in SUBSET (1..MaxId) :
             SearchRecords("hP", field, search_for, exclude_ids, FALSE)
    \/ \E field \in {"t", "x"} : \E search_for \in StrictQueries :
          \E exclude_ids \in SUBSET (1..MaxId) :
             SearchRecords("hP", field, search_for, exclude_ids, TRUE)

SearchSpec == Init /\ [][SearchNext]_vars

\* _get_keywords(query), the function search_records defines for itself.
GetKeywords(query) ==
    /\ ret' = Call("_get_keywords", "", 0, query, get_keywords(query), 0, 0, NoRec)
    /\ UNCHANGED <<db, max_id, returned, nops>>

KeywordsNext == \E query \in SeqsUpTo(QueryChars, MaxQuery) : GetKeywords(query)

KeywordsSpec == Init /\ [][KeywordsNext]_vars

\* ------------------------------------------------------------------ open
\* str.upper() of the type names callers write.
Upper(type) == IF type = "text" THEN "TEXT"
               ELSE IF type = "integer" THEN "INTEGER"
               ELSE type
UpperTypes(fields) == [k \in DOMAIN fields |-> [fields[k] EXCEPT !.type = Upper(@)]]

\* Table(db_loc, table_name, fields_and_types, subtables): ValueError for a
\* type that is no SQLite type; otherwise the object keeps the caller's
\* fields and subtables, and _create_self creates the relation when the file
\* has none of that name.
Table(store, tn, fields_and_types, subtables) ==
    IF \E k \in DOMAIN fields_and_types :
          Upper(fields_and_types[k].type) \notin DOMAIN valid_types
    THEN [exc |-> "ValueError", val |-> NoneV, store |-> store]
    ELSE [exc |-> "",
          val |-> TableObj(tn, UpperTypes(fields_and_types), subtables),
          store |-> CreateSelf(store, tn, UpperTypes(fields_and_types), subtables)]

\* The arguments callers pass to Table(...).
OpenFields == {<<>>,
               <<[name |-> "t", type |-> "text"]>>,
               <<[name |-> "x", type |-> "integer"]>>,
               <<[name |-> "t", type |-> "bool"]>>}
OpenSubtables == SUBSET {"C", "Z"}

\* Table(db_loc, tn, fields_and_types, subtables).
OpenTable(tn, fields_and_types, subtables) ==
    /\ nops < MaxOps
    /\ db' = Table(db, tn, fields_and_types, subtables).store
    /\ ret' = Call("Table", "", 0,
                   [table_name |-> tn, fields |-> fields_and_types,
                    subtables |-> subtables],
                   Table(db, tn, fields_and_types, subtables), 0, 0, NoRec)
    /\ nops' = nops + 1
    /\ UNCHANGED <<max_id, returned>>

\* Table.get_table(db_loc, tn).
GetTable(tn) ==
    /\ nops < MaxOps
    /\ ret' = Call("get_table", "", 0, [table_name |-> tn],
                   IF get_table(db, tn).exc # "" THEN Raise(get_table(db, tn).exc)
                   ELSE Return(get_table(db, tn).obj), 0, 0, NoRec)
    /\ nops' = nops + 1
    /\ UNCHANGED <<db, max_id, returned>>

\* The file is empty at first; delete_record is called on a handle of a
\* relation that exists.
OpenInit ==
    /\ db = <<>>
    /\ max_id = [h \in Handles |-> 0]
    /\ ret = Call("init", "", 0, NoRec, Return(NoneV), 0, 0, NoRec)
    /\ returned = [h \in Handles |-> {}]
    /\ nops = 0

OpenNext ==
    \/ \E tn \in TableNames : \E fields_and_types \in OpenFields :
          \E subtables \in OpenSubtables : OpenTable(tn, fields_and_types, subtables)
    \/ \E tn \in TableNames : GetTable(tn)
    \/ \E h \in Handles : \E id \in Ids :
          HandleTable(h) \in DOMAIN db /\ DeleteRecord(h, id)

OpenSpec == OpenInit /\ [][OpenNext]_vars

\* ------------------------------------------------------------------ two handles
\* hP and hP2 are two Table objects for the table P, built independently: each
\* has a _max_id of its own.  Each calls create_record and saves, with the
\* fields it likes, a record whose id it was given.
RaceHandles == {"hP", "hP2"}
RaceRecords == {[id |-> i, t |-> StrV(s), subrecords |-> [C |-> <<>>]] :
                   i \in 1..MaxId, s \in Texts}

\* h.create_record(fields, {"C": []})
RaceCreate(h, fields) ==
    /\ nops < MaxRaceOps
    /\ create_record(db, HandleObj(h), max_id[h], fields, [C |-> <<>>]).id <= MaxId
    /\ max_id' = [max_id EXCEPT ![h] =
                     create_record(db, HandleObj(h), @, fields, [C |-> <<>>]).max_id]
    /\ returned' = [returned EXCEPT ![h] = @ \cup
                     ({create_record(db, HandleObj(h), max_id[h], fields,
                                     [C |-> <<>>]).id} \ {0})]
    /\ ret' = Call("create_record", h,
                   create_record(db, HandleObj(h), max_id[h], fields, [C |-> <<>>]).id,
                   [fields |-> fields, subrecords |-> [C |-> <<>>]],
                   create_record(db, HandleObj(h), max_id[h], fields, [C |-> <<>>]),
                   0, 0, NoRec)
    /\ nops' = nops + 1
    /\ UNCHANGED db

\* h.save_record(record) for a record whose id h was given.
RaceSave(h, record) ==
    /\ nops < MaxRaceOps
    /\ record["id"] \in returned[h]
    /\ db' = save_record(db, HandleObj(h), record).store
    /\ ret' = Call("save_record", h, record["id"], record,
                   Raise(save_record(db, HandleObj(h), record).exc),
                   Cardinality(RowsAt(db, "P", record["id"])), 0, NoRec)
    /\ nops' = nops + 1
    /\ UNCHANGED <<max_id, returned>>

RaceInit ==
    /\ db = InitStore
    /\ max_id = [h \in RaceHandles |-> 0]
    /\ ret = Call("init", "", 0, NoRec, Return(NoneV), 0, 0, NoRec)
    /\ returned = [h \in RaceHandles |-> {}]
    /\ nops = 0

RaceNext ==
    \/ \E h \in RaceHandles : \E fields \in FieldArgs("hP") : RaceCreate(h, fields)
    \/ \E h \in RaceHandles : \E record \in RaceRecords : RaceSave(h, record)

RaceSpec == RaceInit /\ [][RaceNext]_vars

\* ------------------------------------------------------------------ rewriting
\* The application with tables P and C again, saving trees over rows that
\* other saves have written or delete_record has removed.  A C record has an
\* id of 1..MaxId and n = 1 or 2 (the same id may come twice in one group, with
\* two values); a P record has the empty text or the letter t for t.
RewriteCRecords == {[id |-> i, n |-> IntV(v), subrecords |-> <<>>] :
                       i \in 1..MaxId, v \in {1, 2}}
RewritePRecords == {[id |-> i, t |-> StrV(s), subrecords |-> [C |-> ks]] :
                       i \in 1..MaxId, s \in {<<>>, <<"t">>},
                       ks \in SeqsUpTo(RewriteCRecords, MaxRewriteKids)}

RewriteNext ==
    \/ \E record \in RewritePRecords : SaveRecord("hP", record)
    \/ \E record \in RewriteCRecords : SaveRecord("hC", record)
    \/ \E h \in Handles : \E id \in 1..MaxId : DeleteRecord(h, id)

RewriteSpec == Init /\ [][RewriteNext]_vars

\* ------------------------------------------------------------------ claims
\* The handle's table of the last call.
RetTable == HandleTable(ret.h)

\* C1: round trip.  When create_record has returned a record, save_record of
\* that record succeeds, and get_record of its id right after the save returns
\* a record equal to the built one (id, field values, child groups and order).
C1_RoundTrip ==
    /\ (ret.op = "save_record" /\ ret.chain = 2) => ret.exc = ""
    /\ (ret.op = "get_record" /\ ret.chain = 3) => (ret.exc = "" /\ ret.val = ret.built)

\* C2: update semantics.  A table never holds two rows with one id, and after
\* save_record of a valid record whose id already had a row, that one row holds
\* the record's field values and the manifest of the record's children.
C2_UpdateSemantics ==
    /\ \A tn \in DOMAIN db : \A id \in RowIds(db, tn) :
          Cardinality(RowsAt(db, tn, id)) <= 1
    /\ (ret.op = "save_record" /\ ret.hit >= 1 /\ ret.exc # "InvalidRecordError") =>
          /\ ret.exc = ""
          /\ RowsAt(db, RetTable, ret.id) =
                {Row(ret.id, [f \in RecordFields(ret.rec) |-> ret.rec[f]],
                     Manifest(ret.rec))}

\* C3: id allocation.  Every id get_next_id returns, directly or inside
\* create_record, has no row in the handle's table at the time of the call and
\* was not returned to the same handle before.
C3_IdAllocation ==
    [][(ret'.op \in {"get_next_id", "create_record"} /\ ret'.id # 0) =>
          /\ ret'.id \notin RowIds(db, HandleTable(ret'.h))
          /\ ret'.id \notin returned[ret'.h]
          /\ ret'.op = "get_next_id" => ret'.val = ret'.id
          /\ (ret'.op = "create_record" /\ ret'.exc = "") => ret'.val["id"] = ret'.id]_vars

\* A get_next_id call returns a second id to a handle whose table holds a
\* record row.
C3_Witness ==
    /\ ret.op = "get_next_id" /\ ret.exc = ""
    /\ Cardinality(returned[ret.h]) >= 2
    /\ \E id \in RowIds(db, RetTable) : id > 0

\* C4: non-cascading delete.  delete_record(id) removes the rows with that id
\* from the handle's table and changes nothing else: the other rows of the
\* table, the rows of every other table (the child rows the deleted row lists
\* among them) and the manifests that list the deleted id stay as they were.
C4_NonCascadingDelete ==
    [][ret'.op = "delete_record" =>
          LET tn == HandleTable(ret'.h) IN
          /\ DOMAIN db' = DOMAIN db
          /\ RowsOf(db', tn) = {r \in RowsOf(db, tn) : r.id # ret'.id}
          /\ db'[tn].cols = db[tn].cols
          /\ \A u \in DOMAIN db \ {tn} : db'[u] = db[u]]_vars

\* A row of table tn lists a child id that has no row in the child's table.
Dangling(store, tn, id) ==
    \E r \in RowsAt(store, tn, id) : \E ct \in DOMAIN r.subrecords :
       \E k \in DOMAIN r.subrecords[ct] : RowsAt(store, ct, r.subrecords[ct][k]) = {}

\* delete_record has removed a child row that the manifest of a parent row
\* lists, and the manifest still lists it.
C4_Witness ==
    /\ ret.op = "delete_record" /\ ret.hit = 1 /\ ret.h = "hC"
    /\ RowsAt(db, "C", ret.id) = {}
    /\ \E r \in RowsOf(db, "P") : \E k \in DOMAIN r.subrecords["C"] :
          r.subrecords["C"][k] = ret.id

\* C5 as stated: get_record of a parent whose manifest lists a deleted child
\* does not fail and returns the parent with only the resolved children.
C5_DanglingOmitted ==
    (ret.op = "get_record" /\ Dangling(db, RetTable, ret.id)) =>
       /\ ret.exc = ""
       /\ \A ct \in DOMAIN ret.val["subrecords"] :
             \A k \in DOMAIN ret.val["subrecords"][ct] :
                ret.val["subrecords"][ct][k]["id"] \in RowIds(db, ct)

\* C5, amended: get_record of a parent whose manifest lists a child id that has
\* no row fails: the InvalidRecordError raised for the missing child reaches
\* the caller and no record is returned.
C5_DanglingFails ==
    (ret.op = "get_record" /\ Dangling(db, RetTable, ret.id)) =>
       (ret.exc = "InvalidRecordError" /\ ret.val = NoneV)

\* get_record was called on a parent row that lists a child id whose row has
\* been deleted, and raised.
C5_Witness ==
    /\ ret.op = "get_record" /\ ret.h = "hP" /\ ret.hit = 1
    /\ Dangling(db, "P", ret.id)
    /\ ret.exc = "InvalidRecordError"

\* C6: get_record(id) on an id that has no row in the table raises the
\* record-not-found error of the class (InvalidRecordError) and returns nothing.
C6_GetAbsentFails ==
    (ret.op = "get_record" /\ RowsAt(db, RetTable, ret.id) = {}) =>
       (ret.exc = "InvalidRecordError" /\ ret.val = NoneV)

\* get_record was called on an id that is not the metadata row's and has no row.
C6_Witness ==
    /\ ret.op = "get_record" /\ ret.id > 0 /\ ret.hit = 0
    /\ ret.exc = "InvalidRecordError"

\* C7 as stated: delete_record(id) on an id that has no row raises an error.
C7_DeleteAbsentFails ==
    (ret.op = "delete_record" /\ ret.hit = 0) => ret.exc # ""

\* C7, amended: delete_record(id) on an id that has no row raises nothing and
\* leaves the store as it was (a silent no-op).
C7_DeleteAbsentNoOp ==
    [][(ret'.op = "delete_record" /\ RowsAt(db, HandleTable(ret'.h), ret'.id) = {}) =>
          (ret'.exc = "" /\ db' = db)]_vars

\* delete_record was called on an id that had no row, and returned.
C7_Witness ==
    ret.op = "delete_record" /\ ret.hit = 0 /\ ret.exc = ""

\* C8: metadata row.  In every state each table has a row with id 0 whose
\* manifest keys are the table's declared child tables and whose field columns
\* are unset.
C8_MetadataRow ==
    \A tn \in TableNames :
       \E r \in RowsAt(db, tn, 0) :
          /\ DOMAIN r.subrecords = DeclSubtables(tn)
          /\ \A f \in DOMAIN r.vals : r.vals[f] = NoneV

\* C9: fetchall returns exactly one record for every row whose id is not 0,
\* and none for the id-0 row.
C9_FetchAllSkipsMetadata ==
    (ret.op = "fetchall" /\ ret.exc = "") =>
       /\ {ret.val[k]["id"] : k \in DOMAIN ret.val} = RowIds(db, RetTable) \ {0}
       /\ Len(ret.val) = Cardinality(RowIds(db, RetTable) \ {0})

\* C10: create_record called with fields only, on a table that declares child
\* tables, returns a record whose subrecords has an empty list for each
\* declared child table.
C10_DefaultChildren ==
    (/\ ret.op = "create_record"
     /\ DOMAIN ret.rec.subrecords = {}
     /\ DeclSubtables(RetTable) # {}) =>
       /\ ret.exc = ""
       /\ ret.val["subrecords"] = [tn \in DeclSubtables(RetTable) |-> <<>>]

\* A record has the shape its table declares: its keys are id, subrecords and
\* the declared fields, its groups are the declared child tables, every field
\* value has the declared type and every child record has the shape of its own
\* table.
RECURSIVE WellFormed(_, _)
WellFormed(tn, record) ==
    /\ DOMAIN record = {"id", "subrecords"} \cup FieldNames(DeclFields(tn))
    /\ DOMAIN record["subrecords"] = DeclSubtables(tn)
    /\ \A k \in DOMAIN DeclFields(tn) :
          record[DeclFields(tn)[k].name].ty = valid_types[DeclFields(tn)[k].type]
    /\ \A ct \in DeclSubtables(tn) : \A k \in DOMAIN record["subrecords"][ct] :
          WellFormed(ct, record["subrecords"][ct][k])

\* C11: validator.  is_valid_record returns ok = true exactly when the record
\* has the shape its table declares (key set, child-table set, field types,
\* every child valid against its own table), and ok = false in every other
\* case.
C11_ValidatorExact ==
    ret.op = "is_valid_record" =>
       (ret.exc = "" /\ (ret.val <=> WellFormed(RetTable, ret.rec)))

\* C12: a save of a record tree that the validator rejects, for the record
\* itself or for a record at any depth below it, raises InvalidRecordError and
\* leaves every table of the store as it was.
C12_InvalidSaveWritesNothing ==
    [][(/\ ret'.op = "save_record"
        /\ ~is_valid_record(db, HandleObj(ret'.h), ret'.rec).ok) =>
          (ret'.exc = "InvalidRecordError" /\ db' = db)]_vars

\* save_record has rejected a tree whose root and whose child have a valid
\* shape of their own and whose grandchild (an N record without its group M)
\* has not.
C12_Witness ==
    /\ ret.op = "save_record" /\ ret.h = "hN" /\ ret.exc = "InvalidRecordError"
    /\ is_valid_record(db, HandleObj("hN"), WithoutKids(ret.rec)).ok
    /\ Len(ret.rec["subrecords"]["M"]) = 1
    /\ LET child == ret.rec["subrecords"]["M"][1] IN
       /\ is_valid_record(db, get_table(db, "M").obj, WithoutKids(child)).ok
       /\ Len(child["subrecords"]["N"]) = 1
       /\ DOMAIN child["subrecords"]["N"][1]["subrecords"] = {}

\* The tokens of a query, read from left to right: a double-quoted run is one
\* token (the text between the quotes, spaces included), every other maximal
\* run of characters that are no spaces is one token.
RECURSIVE Tokens(_)
Tokens(query) ==
    LET s == LStrip(query) IN
    IF s = <<>> THEN <<>>
    ELSE IF s[1] = DQ /\ Find(Tail(s), DQ) # 0
    THEN LET close == Find(Tail(s), DQ) + 1
         IN  <<SubSeq(s, 2, close - 1)>> \o Tokens(SubSeq(s, close + 1, Len(s)))
    ELSE LET stop == IF Find(s, SP) = 0 THEN Len(s) + 1 ELSE Find(s, SP)
         IN  <<SubSeq(s, 1, stop - 1)>> \o Tokens(SubSeq(s, stop, Len(s)))

\* The text value contains the text part as a substring (case-sensitive).
Contains(value, part) ==
    \E i \in 1..(Len(value) + 1) :
       /\ i + Len(part) - 1 <= Len(value)
       /\ SubSeq(value, i, i + Len(part) - 1) = part
\* The ids of the records the last search has returned.
ResultIds == {ret.val[k]["id"] : k \in DOMAIN ret.val}
\* The ids of the rows of P whose field t holds a text that contains a token
\* of the query or the whole query.
Matching(query) ==
    {r.id : r \in {q \in RowsOf(db, "P") :
                    /\ q.vals["t"].ty = "str"
                    /\ \/ Contains(q.vals["t"].s, query)
                       \/ \E k \in DOMAIN Tokens(query) :
                             Contains(q.vals["t"].s, Tokens(query)[k])}}

\* C13: relative search.  A search in relative mode on a declared field
\* returns the records of exactly the rows that are not excluded and whose
\* field value contains a token of the query, or the whole query, as a
\* substring.
C13_RelativeSearch ==
    (/\ ret.op = "search_records" /\ ~ret.rec.strict
     /\ ret.rec.field \in FieldNames(DeclFields(RetTable))) =>
       /\ ret.exc = ""
       /\ ResultIds = Matching(ret.rec.search_for) \ ret.rec.exclude_ids

\* C14: exclusion.  In strict and in relative mode, no record that a search
\* returns has an id of the caller's exclude_ids.
C14_SearchExclusion ==
    (ret.op = "search_records" /\ ret.exc = "") =>
       ResultIds \cap ret.rec.exclude_ids = {}

\* C15: tokenizer.  For every query, _get_keywords returns the tokens of the
\* query from left to right: each double-quoted run as one token with its
\* spaces, every other maximal run of non-space characters as one token; also
\* for a query that ends with a quoted run.
C15_Tokenizer ==
    ret.op = "_get_keywords" =>
       (ret.exc = "" /\ ret.val = Tokens(ret.rec))

\* C16: open-or-create.  When Table(...) is called for a table name whose
\* relation is in the store already, the object it returns has the fields
\* (the columns other than id and subrecords) and the child tables (the keys
\* of the subrecords column of the id-0 row) recovered from the store,
\* whatever fields and child tables the caller has passed.
C16_OpenRecovers ==
    [][(/\ ret'.op = "Table" /\ ret'.exc = ""
        /\ ret'.rec.table_name \in DOMAIN db) =>
          ret'.val = get_table(db, ret'.rec.table_name).obj]_vars

\* The records of a tree in pre-order, each with its table: the record, then
\* the trees of its child records in the order of Kids.
RECURSIVE PreOrder(_, _)
RECURSIVE PreOrderKids(_, _)
PreOrderKids(kids, k) ==
    IF k > Len(kids) THEN <<>>
    ELSE PreOrder(kids[k].table, kids[k].rec) \o PreOrderKids(kids, k + 1)
PreOrder(tn, record) ==
    <<[table |-> tn, rec |-> record]>> \o PreOrderKids(Kids(record), 1)
\* The rows a sequence of records is written to.
LogOf(nodes) == [k \in DOMAIN nodes |-> [table |-> nodes[k].table, id |-> nodes[k].rec["id"]]]

\* C17: pre-order save.  The rows a save_record call writes are written in
\* the pre-order of the record tree: a record's row before the rows of its
\* child records, the children in the order of their groups and of their
\* place in the group.  A call that raises has written a prefix of that
\* order, a call that returns has written all of it.
C17_PreOrderSave ==
    (ret.op = "save_record" /\ ret.exc # "InvalidRecordError") =>
       LET order == LogOf(PreOrder(RetTable, ret.rec)) IN
       /\ Len(ret.log) <= Len(order)
       /\ ret.log = SubSeq(order, 1, Len(ret.log))
       /\ ret.exc = "" => ret.log = order

\* A save of an M record with an N child, an M grandchild and two C children
\* has returned: five rows or more were written, in three tables.
C17_Witness ==
    /\ ret.op = "save_record" /\ ret.h = "hM" /\ ret.exc = ""
    /\ Len(ret.rec["subrecords"]["C"]) = 2
    /\ Len(ret.rec["subrecords"]["N"]) = 1
    /\ Len(ret.rec["subrecords"]["N"][1]["subrecords"]["M"]) = 1
    /\ Len(ret.log) >= 5
    /\ {ret.log[k].table : k \in DOMAIN ret.log} = {"M", "N", "C"}

\* The statements for the records of nodes from the k-th on, one after the
\* other up to the first that fails: the error of that one ("" when none
\* fails), the store the statements before it have left, and their number.
RECURSIVE WriteAll(_, _, _)
WriteAll(store, nodes, k) ==
    IF k > Len(nodes) THEN [exc |-> "", store |-> store, done |-> k - 1]
    ELSE LET w == WriteRecord(store, nodes[k].table, nodes[k].rec) IN
         IF w.exc # "" THEN [exc |-> w.exc, store |-> store, done |-> k - 1]
         ELSE WriteAll(w.store, nodes, k + 1)

\* C18: non-atomic save.  When the statement for a child record of a valid
\* tree fails, save_record raises the store's error, and the store is the one
\* the statements of the records before the failing one have left: the row of
\* the parent and the rows of the children written earlier stay.
C18_NonAtomicSave ==
    [][LET nodes == PreOrder(HandleTable(ret'.h), ret'.rec)
           writes == WriteAll(db, nodes, 1)
       IN  (/\ ret'.op = "save_record"
            /\ is_valid_record(db, HandleObj(ret'.h), ret'.rec).ok
            /\ writes.exc # "" /\ writes.done >= 1) =>
              /\ ret'.exc = writes.exc
              /\ db' = writes.store
              /\ ret'.log = SubSeq(LogOf(nodes), 1, writes.done)]_vars

\* A save has raised OperationalError after it wrote two rows or more, and
\* the rows it wrote are in the store.
C18_Witness ==
    /\ ret.op = "save_record" /\ ret.exc = "OperationalError"
    /\ Len(ret.log) >= 2
    /\ \A k \in DOMAIN ret.log : RowsAt(db, ret.log[k].table, ret.log[k].id) # {}

\* The reference graph of the store: its nodes are the rows, by table and id;
\* a row refers to every (child table, child id) of its subrecords column.
GraphNodes == UNION {{<<tn, r.id>> : r \in RowsOf(db, tn)} : tn \in DOMAIN db}
Refers(a, b) ==
    \E r \in RowsAt(db, a[1], a[2]) :
       /\ b[1] \in DOMAIN r.subrecords
       /\ \E k \in DOMAIN r.subrecords[b[1]] : r.subrecords[b[1]][k] = b[2]
\* The nodes reached from the nodes of S over n references or fewer.
RECURSIVE ReachedFrom(_, _)
ReachedFrom(S, n) ==
    IF n = 0 THEN S
    ELSE ReachedFrom(S \cup {b \in GraphNodes : \E a \in S : Refers(a, b)}, n - 1)
OnCycle(a) ==
    a \in ReachedFrom({b \in GraphNodes : Refers(a, b)}, Cardinality(GraphNodes))

\* C20: acyclic references.  After any sequence of save_record and
\* delete_record calls the reference graph of the store has no cycle: no row
\* is reached from itself over the ids of the subrecords columns.
C20_Acyclic == \A a \in GraphNodes : ~OnCycle(a)

\* C19: id race.  When two handles on one table were given the same id and
\* one has saved its record, the save of the other handle's record of that id
\* returns and leaves the row with the values of that later record.
C19_LaterSaveOverwrites ==
    [][(/\ ret.op = "save_record" /\ ret.exc = ""
        /\ ret'.op = "save_record" /\ ret'.h # ret.h /\ ret'.id = ret.id
        /\ ret.id \in returned[ret.h] \cap returned[ret'.h]) =>
          /\ ret'.exc = ""
          /\ RowsAt(db', "P", ret'.id) =
                {Row(ret'.id, [t |-> ret'.rec["t"]], Manifest(ret'.rec))}]_vars

\* The last record of nodes, in their order, that has the table and the id of
\* the k-th one, and the row that holds a record's field values and manifest.
LastOf(nodes, k) ==
    nodes[CHOOSE j \in DOMAIN nodes :
             /\ nodes[j].table = nodes[k].table
             /\ nodes[j].rec["id"] = nodes[k].rec["id"]
             /\ \A i \in DOMAIN nodes :
                   (nodes[i].table = nodes[k].table
                    /\ nodes[i].rec["id"] = nodes[k].rec["id"]) => i <= j].rec
RowFor(record) ==
    Row(record["id"], [f \in RecordFields(record) |-> record[f]], Manifest(record))

\* C21: children are rewritten.  After a save_record call that has returned,
\* every record of the tree has one row in its table, and the row holds the
\* field values and the manifest the tree gives for it (those of the last
\* occurrence in pre-order when the id comes more than once), whatever the
\* row held before the call.
C21_ChildrenRewritten ==
    (ret.op = "save_record" /\ ret.exc = "") =>
       \A k \in DOMAIN PreOrder(RetTable, ret.rec) :
          RowsAt(db, PreOrder(RetTable, ret.rec)[k].table,
                 PreOrder(RetTable, ret.rec)[k].rec["id"])
            = {RowFor(LastOf(PreOrder(RetTable, ret.rec), k))}

====
